---- MODULE Spec2Model ----
(***************************************************************************)
(* usdautoguide/auto_guide.py: the bounding box of a USD asset and the     *)
(* 8-vertex, 6-quad guide mesh built from it.                              *)
(*                                                                         *)
(* A Python float is a record [m, e] standing for (m / 10) * 10^e: m is a  *)
(* signed two-digit decimal mantissa (10 <= |m| <= 99, or 0 for 0.0) and e *)
(* the decimal exponent.  A text is a sequence of one-character strings.   *)
(* A path is a sequence of names.                                          *)
(***************************************************************************)
EXTENDS Integers, Sequences, FiniteSets, TLC

VARIABLES
    geoExists,      \* Path(geo_path).exists()
    srcScene,       \* the geometry of the scene stored at geo_path
    guideFile,      \* what storage holds at guide_path
    pc,             \* position of the caller in create_auto_guide / the direct calls
    err,            \* the exception that ended the run, NoError if none
    ops,            \* the Usd calls issued so far, in order
    bbox_extent,    \* first result of _get_vertex_bbox ([] before it returns)
    vertex_points,  \* second result of _get_vertex_bbox
    stagePrims,     \* the prims of the in-memory guide stage, in definition order
    boxAttrs,       \* the attributes authored on .../model/guide/box
    extentCall,     \* outcome of a direct _get_extent call
    meshCalls       \* number of _create_cube_mesh calls made on the guide stage

vars == <<geoExists, srcScene, guideFile, pc, err, ops, bbox_extent,
          vertex_points, stagePrims, boxAttrs, extentCall, meshCalls>>

----------------------------------------------------------------------------
(* Python floats, their ordering and their repr.                           *)

F(m, e) == [m |-> m, e |-> e]

Sign(n) == IF n > 0 THEN 1 ELSE IF n < 0 THEN -1 ELSE 0

Abs(n) == IF n < 0 THEN -n ELSE n

\* -1, 0, 1 as a < b, a = b, a > b (numeric comparison of two floats)
Cmp(a, b) ==
    IF Sign(a.m) # Sign(b.m) THEN Sign(Sign(a.m) - Sign(b.m))
    ELSE IF a.m = 0 THEN 0
    ELSE IF a.e # b.e THEN Sign(a.m) * Sign(a.e - b.e)
    ELSE Sign(a.m - b.m)

Le(a, b) == Cmp(a, b) <= 0

FMin(a, b) == IF Le(a, b) THEN a ELSE b

FMax(a, b) == IF Le(a, b) THEN b ELSE a

DigitChars == <<"0", "1", "2", "3", "4", "5", "6", "7", "8", "9">>

Digit(d) == DigitChars[d + 1]

DigitVal(c) == (CHOOSE i \in 1..10 : DigitChars[i] = c) - 1

RECURSIVE Zeros(_)
Zeros(n) == IF n <= 0 THEN <<>> ELSE <<"0">> \o Zeros(n - 1)

\* str(number) for a Python float: repr switches to exponent notation when the
\* decimal exponent is below -4 or above 15
Str(x) ==
    LET a    == Abs(x.m)
        d1   == a \div 10
        d2   == a % 10
        sgn  == IF x.m < 0 THEN <<"-">> ELSE <<>>
        mant == IF d2 = 0 THEN <<Digit(d1)>> ELSE <<Digit(d1), ".", Digit(d2)>>
        ae   == Abs(x.e)
    IN  IF x.m = 0 THEN <<"0", ".", "0">>
        ELSE IF x.e < -4 \/ x.e > 15
            THEN sgn \o mant \o <<"e", IF x.e < 0 THEN "-" ELSE "+">>
                     \o <<Digit(ae \div 10), Digit(ae % 10)>>
        ELSE IF x.e >= 1
            THEN sgn \o <<Digit(d1), Digit(d2)>> \o Zeros(x.e - 1) \o <<".", "0">>
        ELSE IF x.e = 0
            THEN sgn \o <<Digit(d1), ".", Digit(d2)>>
        ELSE sgn \o <<"0", ".">> \o Zeros(-x.e - 1)
                 \o (IF d2 = 0 THEN <<Digit(d1)>> ELSE <<Digit(d1), Digit(d2)>>)

\* "e" in text
HasE(text) == \E i \in 1..Len(text) : text[i] = "e"

\* text.split("e")[0]
SplitE0(text) ==
    IF HasE(text)
        THEN SubSeq(text, 1, (CHOOSE i \in 1..Len(text) :
                                 text[i] = "e" /\ \A j \in 1..(i - 1) : text[j] # "e") - 1)
        ELSE text

\* float(text) for a text "d", "d.d", "-d" or "-d.d"
ParseFloat(text) ==
    LET neg  == text[1] = "-"
        body == IF neg THEN Tail(text) ELSE text
        d1   == DigitVal(body[1])
        d2   == IF Len(body) >= 3 THEN DigitVal(body[3]) ELSE 0
    IN  F((IF neg THEN -1 ELSE 1) * (10 * d1 + d2), 0)

convert_to_float(number) ==
    IF HasE(Str(number)) THEN ParseFloat(SplitE0(Str(number))) ELSE number

----------------------------------------------------------------------------
(* The source scene: the default prim /asset (an Xform, no extent of its   *)
(* own) over the geometry prims /asset/geoA and /asset/geoB.               *)

Vec(x, y, z) == <<x, y, z>>

Range(lo, hi) == [min |-> lo, max |-> hi]

FLT_MAX == F(34, 38)

\* Gf.Range3d(): the empty range, min = FLT_MAX and max = -FLT_MAX on every axis
EmptyRange ==
    Range(Vec(FLT_MAX, FLT_MAX, FLT_MAX),
          Vec(F(-34, 38), F(-34, 38), F(-34, 38)))

\* GfRange3d::UnionWith
UnionWith(a, b) ==
    Range([i \in 1..3 |-> FMin(a.min[i], b.min[i])],
          [i \in 1..3 |-> FMax(a.max[i], b.max[i])])

GeoNodes == {"geoA", "geoB"}

AssetPath == <<"asset">>

ChildPaths(path) ==
    IF path = AssetPath THEN << <<"asset", "geoA">>, <<"asset", "geoB">> >> ELSE <<>>

ValidPaths == {AssetPath, <<"asset", "geoA">>, <<"asset", "geoB">>}

\* the exception a resolving lookup would raise
NodeNotFoundError == [type |-> "NodeNotFoundError", where |-> <<"no prim at path">>]

\* stage.GetPrimAtPath(prim_path): a prim object, invalid when nothing is there;
\* no exception is raised
GetPrimAtPath(path) == [path |-> path, valid |-> path \in ValidPaths]

\* model_stage.GetDefaultPrim()
GetDefaultPrim == GetPrimAtPath(AssetPath)

NodeAt(scene, path) ==
    IF Len(path) = 2
        THEN scene[path[2]]
        ELSE [purpose |-> "default", visible |-> TRUE, box |-> EmptyRange]

\* the arguments given to UsdGeom.BBoxCache
includedPurposes == {"default", "render"}

\* variant: the cache built with ignoreVisibility=True
ignoreVisibilityOn == TRUE

ignoreVisibility == FALSE

\* BBoxCache: an invisible prim is skipped with its whole subtree unless
\* visibility is ignored
Pruned(node) == ~ignoreVisibility /\ ~node.visible

\* BBoxCache: a prim's own extent counts when its purpose is an included one
OwnBound(node) ==
    IF node.purpose \in includedPurposes THEN node.box ELSE EmptyRange

RECURSIVE ComputeWorldBound(_, _)
RECURSIVE UnionChildren(_, _, _)
UnionChildren(scene, kids, acc) ==
    IF kids = <<>> THEN acc
    ELSE UnionChildren(scene, Tail(kids),
                       UnionWith(acc, ComputeWorldBound(scene, Head(kids))))

\* bbox_cache.ComputeWorldBound(prim).ComputeAlignedBox() of a valid prim
\* (every prim of the scene carries the identity transform)
ComputeWorldBound(scene, path) ==
    LET node == NodeAt(scene, path)
    IN  IF Pruned(node) THEN EmptyRange
        ELSE UnionChildren(scene, ChildPaths(path), OwnBound(node))

----------------------------------------------------------------------------
(* Exceptions: the type and the chain of "Error in <function>: " prefixes  *)
(* down to the cause.                                                      *)

NoError == [type |-> "", where |-> <<>>]

FileNotFoundError == [type |-> "FileNotFoundError", where |-> <<"does not exist">>]

\* raise ValueError(f"Error in <fn>: {str(e)}")
Wrap(fn, e) == [type |-> "ValueError", where |-> <<fn>> \o e.where]

Raised(cause) == [type |-> "Tf.ErrorException", where |-> <<cause>>]

StrArg(path) == [kind |-> "str", path |-> path]

PrimArg(prim) == [kind |-> "prim", prim |-> prim]

\* variant: the path is checked when it is resolved, and an unresolved one
\* raises before the bound is queried
get_extent_resolving(scene, arg, queryFails) ==
    LET prim == IF arg.kind = "str" THEN GetPrimAtPath(arg.path) ELSE arg.prim
    IN  IF arg.kind = "str" /\ ~prim.valid
            THEN [err |-> NodeNotFoundError, val |-> EmptyRange,
                  ops |-> <<"GetPrimAtPath">>]
        ELSE IF queryFails \/ ~prim.valid
            THEN [err |-> Wrap("get_extent", Raised("query failed")),
                  val |-> EmptyRange, ops |-> <<"ComputeWorldBound">>]
        ELSE [err |-> NoError, val |-> ComputeWorldBound(scene, prim.path),
              ops |-> <<"ComputeWorldBound", "ComputeAlignedBox">>]

\* _get_extent(stage, prim); queryFails: the bound query throws on this scene
get_extent(scene, arg, queryFails) ==
    LET prim   == IF arg.kind = "str" THEN GetPrimAtPath(arg.path) ELSE arg.prim
        called == (IF arg.kind = "str" THEN <<"GetPrimAtPath">> ELSE <<>>)
                      \o <<"ComputeWorldBound">>
    IN  IF ~prim.valid
            THEN [err |-> Wrap("get_extent", Raised("invalid prim")),
                  val |-> EmptyRange, ops |-> called]
        ELSE IF queryFails
            THEN [err |-> Wrap("get_extent", Raised("query failed")),
                  val |-> EmptyRange, ops |-> called]
        ELSE [err |-> NoError, val |-> ComputeWorldBound(scene, prim.path),
              ops |-> called \o <<"ComputeAlignedBox">>]

\* variant: the first two corners in the other order
VertexPointsSwapped(cmin, cmax) ==
    << Vec(cmin[1], cmin[2], cmax[3]),
       Vec(cmax[1], cmin[2], cmax[3]),
       Vec(cmax[1], cmax[2], cmax[3]),
       Vec(cmin[1], cmax[2], cmax[3]),
       Vec(cmin[1], cmin[2], cmin[3]),
       Vec(cmax[1], cmin[2], cmin[3]),
       Vec(cmin[1], cmax[2], cmin[3]),
       Vec(cmax[1], cmax[2], cmin[3]) >>

\* the vertex_points list of _get_vertex_bbox
VertexPoints(cmin, cmax) ==
    << Vec(cmax[1], cmin[2], cmax[3]),
       Vec(cmin[1], cmin[2], cmax[3]),
       Vec(cmax[1], cmax[2], cmax[3]),
       Vec(cmin[1], cmax[2], cmax[3]),
       Vec(cmin[1], cmin[2], cmin[3]),
       Vec(cmax[1], cmin[2], cmin[3]),
       Vec(cmin[1], cmax[2], cmin[3]),
       Vec(cmax[1], cmax[2], cmin[3]) >>

\* _get_vertex_bbox(stage, prim)
get_vertex_bbox(scene, arg, queryFails) ==
    LET bound_align   == get_extent(scene, arg, queryFails)
        bbox_min      == bound_align.val.min
        bbox_max      == bound_align.val.max
        corrected_min == [i \in 1..3 |-> convert_to_float(bbox_min[i])]
        corrected_max == [i \in 1..3 |-> convert_to_float(bbox_max[i])]
    IN  IF bound_align.err # NoError
            THEN [err |-> Wrap("get_vertex_bbox when extracting extents", bound_align.err),
                  extents |-> <<>>, points |-> <<>>, ops |-> bound_align.ops]
            ELSE [err |-> NoError,
                  extents |-> <<corrected_min, corrected_max>>,
                  points |-> VertexPoints(corrected_min, corrected_max),
                  ops |-> bound_align.ops]

----------------------------------------------------------------------------
(* The guide stage: prim specs in definition order and the attributes of   *)
(* the box mesh, each with its type name and its value (<<>> before Set).  *)

HasPrim(prims, path) == \E i \in 1..Len(prims) : prims[i].path = path

\* variant: a prim spec is added on every call
DefinePrimAppend(prims, path, typeName) ==
    Append(prims, [path |-> path, type |-> typeName])

\* stage.DefinePrim(path, typeName): the prim at path, created when absent
DefinePrim(prims, path, typeName) ==
    IF HasPrim(prims, path)
        THEN [i \in 1..Len(prims) |->
                 IF prims[i].path = path
                     THEN [path |-> path, type |-> typeName]
                     ELSE prims[i]]
        ELSE Append(prims, [path |-> path, type |-> typeName])

\* cube_mesh.CreateAttribute(name, typeName): the attribute, created when absent
CreateAttribute(attrs, name, typeName) ==
    IF name \in DOMAIN attrs
        THEN [attrs EXCEPT ![name].type = typeName]
        ELSE (name :> [type |-> typeName, value |-> <<>>]) @@ attrs

\* attribute.Set(value)
SetValue(attrs, name, value) == [attrs EXCEPT ![name].value = value]

FaceVertexCounts == <<4, 4, 4, 4, 4, 4>>

\* variant: the first face takes corner 4 for corner 2
FaceVertexIndicesSkewed ==
    <<0, 1, 3, 4,  4, 5, 7, 6,  6, 7, 2, 3,  5, 4, 1, 0,  5, 0, 2, 7,  1, 4, 6, 3>>

\* variant: the first face listed in the opposite direction
FaceVertexIndicesFlipped ==
    <<2, 3, 1, 0,  4, 5, 7, 6,  6, 7, 2, 3,  5, 4, 1, 0,  5, 0, 2, 7,  1, 4, 6, 3>>

FaceVertexIndices ==
    <<0, 1, 3, 2,  4, 5, 7, 6,  6, 7, 2, 3,  5, 4, 1, 0,  5, 0, 2, 7,  1, 4, 6, 3>>

\* the Usd calls of _create_cube_mesh, in the order of its statements
MeshSteps(extent, points, root) ==
    << [op |-> "DefinePrim", path |-> root, type |-> "Xform"],
       [op |-> "DefinePrim", path |-> root \o <<"model">>, type |-> "Xform"],
       [op |-> "DefinePrim", path |-> root \o <<"model", "guide">>, type |-> "Xform"],
       [op |-> "DefinePrim", path |-> root \o <<"model", "guide", "box">>, type |-> "Mesh"],
       [op |-> "Set", name |-> "faceVertexCounts", type |-> "Int",
        value |-> FaceVertexCounts],
       [op |-> "Set", name |-> "points", type |-> "Point3f", value |-> points],
       [op |-> "Set", name |-> "extent", type |-> "Vector3fArray", value |-> extent],
       [op |-> "Set", name |-> "faceVertexIndices", type |-> "Int",
        value |-> FaceVertexIndices] >>

\* one statement group of _create_cube_mesh; throws: the step's write raises
RunStep(stage, step, throws) ==
    IF step.op = "DefinePrim"
        THEN IF throws THEN stage
             ELSE [stage EXCEPT !.prims = DefinePrim(stage.prims, step.path, step.type)]
        ELSE LET created == CreateAttribute(stage.attrs, step.name, step.type)
             IN  [stage EXCEPT !.attrs =
                     IF throws THEN created
                     ELSE SetValue(created, step.name, step.value)]

RECURSIVE RunSteps(_, _, _, _)
RunSteps(stage, steps, k, failAt) ==
    IF k > Len(steps) \/ (failAt # 0 /\ k > failAt) THEN stage
    ELSE RunSteps(RunStep(stage, steps[k], k = failAt), steps, k + 1, failAt)

\* _create_cube_mesh(stage, bbox_extent, vertex_points, default_prim);
\* failAt: the step whose Usd call raises, 0 when none does
create_cube_mesh(stage, extent, points, default_prim, failAt) ==
    LET steps == MeshSteps(extent, points, default_prim.path)
        after == RunSteps(stage, steps, 1, failAt)
        upto  == IF failAt = 0 THEN Len(steps) ELSE failAt
    IN  [err   |-> IF failAt = 0 THEN NoError
                   ELSE Wrap("create_cube_mesh", Raised("write failed")),
         stage |-> after,
         ops   |-> [k \in 1..upto |-> steps[k].op]]

\* Usd.Stage.CreateNew(guide_path): the root layer is written, empty, at once,
\* replacing any file already at guide_path
NewLayer == [state |-> "written", prims |-> <<>>, attrs |-> <<>>]

\* stage.Save()
SavedLayer(prims, attrs) == [state |-> "written", prims |-> prims, attrs |-> attrs]

\* variant: the existence check never fires
SourceMissingIgnored(exists) == FALSE

\* not Path(geo_path).exists()
SourceMissing(exists) == ~exists

----------------------------------------------------------------------------
(* The scenes, files and calls explored.                                   *)

MaxCalls == 2

Purposes == {"default", "render", "proxy", "guide"}

ScenarioBox ==
    Range(Vec(F(-10, 0), F(-20, 0), F(-30, 0)), Vec(F(40, 0), F(50, 0), F(60, 0)))

BoxesA ==
    { ScenarioBox,
      Range(Vec(F(-50, 16), F(12, -5), F(0, 0)), Vec(F(-12, 0), F(12, 0), F(70, -3))) }

BoxesB ==
    { Range(Vec(F(-90, 0), F(-90, 0), F(-90, 0)), Vec(F(90, 0), F(90, 0), F(90, 0))),
      Range(Vec(F(20, 0), F(30, -6), F(10, 15)), Vec(F(20, 0), F(50, 1), F(10, 16))) }

WideVals == {F(12, -5), F(12, 0), F(50, 0), F(12, 16)}

Intervals == {iv \in WideVals \X WideVals : Le(iv[1], iv[2])}

WideBoxes ==
    { Range(Vec(ix[1], iy[1], iz[1]), Vec(ix[2], iy[2], iz[2])) :
          ix \in Intervals, iy \in Intervals, iz \in Intervals }

Geo(purpose, visible, box) == [purpose |-> purpose, visible |-> visible, box |-> box]

\* scenes varying purpose and visibility of both geometry prims
MixedScenes ==
    { [n \in GeoNodes |-> IF n = "geoA" THEN a ELSE b] :
          a \in {Geo(p, v, bx) : p \in Purposes, v \in BOOLEAN, bx \in BoxesA},
          b \in {Geo(p, v, bx) : p \in Purposes, v \in BOOLEAN, bx \in BoxesB} }

\* scenes whose bound is the box of the one contributing prim
WideScenes ==
    { [n \in GeoNodes |->
          IF n = "geoA" THEN Geo("default", TRUE, bx)
          ELSE Geo("guide", TRUE, ScenarioBox)] : bx \in WideBoxes }

ExtentArgs ==
    {PrimArg(GetDefaultPrim)}
        \cup {StrArg(p) : p \in ValidPaths \cup {<<"missing">>}}

NoCall ==
    [done |-> FALSE, arg |-> PrimArg(GetDefaultPrim), err |-> NoError,
     val |-> EmptyRange, ops |-> <<>>]

Init ==
    /\ \/ /\ srcScene \in MixedScenes
          /\ geoExists \in BOOLEAN
          /\ guideFile \in {[state |-> st, prims |-> <<>>, attrs |-> <<>>] :
                               st \in {"absent", "old"}}
       \/ /\ srcScene \in WideScenes
          /\ geoExists = TRUE
          /\ guideFile = [state |-> "absent", prims |-> <<>>, attrs |-> <<>>]
    /\ pc = "start"
    /\ err = NoError
    /\ ops = <<>>
    /\ bbox_extent = <<>>
    /\ vertex_points = <<>>
    /\ stagePrims = <<>>
    /\ boxAttrs = <<>>
    /\ extentCall = NoCall
    /\ meshCalls = 0

----------------------------------------------------------------------------
(* create_auto_guide, statement by statement, and the direct calls of      *)
(* _get_extent and _create_cube_mesh a caller (the tests) makes.           *)

\* if not Path(geo_path).exists(): raise FileNotFoundError
CheckSource ==
    /\ pc = "start"
    /\ IF SourceMissing(geoExists)
           THEN pc' = "failed" /\ err' = FileNotFoundError
           ELSE pc' = "try" /\ err' = err
    /\ UNCHANGED <<geoExists, srcScene, guideFile, ops, bbox_extent, vertex_points,
                   stagePrims, boxAttrs, extentCall, meshCalls>>

\* model_stage = Usd.Stage.Open(geo_path); asset_prim = model_stage.GetDefaultPrim()
OpenStage ==
    /\ pc = "try"
    /\ \E ok \in BOOLEAN :
          /\ ok => geoExists
          /\ IF ok
                 THEN /\ pc' = "opened"
                      /\ err' = err
                      /\ ops' = ops \o <<"Open", "GetDefaultPrim">>
                 ELSE /\ pc' = "failed"
                      /\ err' = Wrap("create_auto_guide", Raised("open failed"))
                      /\ ops' = ops \o <<"Open">>
    /\ UNCHANGED <<geoExists, srcScene, guideFile, bbox_extent, vertex_points,
                   stagePrims, boxAttrs, extentCall, meshCalls>>

\* bbox_extent, vertex_points = _get_vertex_bbox(model_stage, asset_prim)
GetVertexBBox ==
    /\ pc = "opened"
    /\ \E queryFails \in BOOLEAN :
          LET r == get_vertex_bbox(srcScene, PrimArg(GetDefaultPrim), queryFails)
          IN  /\ ops' = ops \o r.ops
              /\ IF r.err = NoError
                     THEN /\ pc' = "bboxed"
                          /\ err' = err
                          /\ bbox_extent' = r.extents
                          /\ vertex_points' = r.points
                     ELSE /\ pc' = "failed"
                          /\ err' = Wrap("create_auto_guide", r.err)
                          /\ UNCHANGED <<bbox_extent, vertex_points>>
    /\ UNCHANGED <<geoExists, srcScene, guideFile, stagePrims, boxAttrs,
                   extentCall, meshCalls>>

\* a direct call _get_extent(model_stage, prim) on the opened stage
GetExtentCall ==
    /\ pc = "opened"
    /\ \E arg \in ExtentArgs, queryFails \in BOOLEAN :
          LET r == get_extent(srcScene, arg, queryFails)
          IN  extentCall' = [done |-> TRUE, arg |-> arg, err |-> r.err,
                             val |-> r.val, ops |-> r.ops]
    /\ pc' = "extent_done"
    /\ UNCHANGED <<geoExists, srcScene, guideFile, err, ops, bbox_extent,
                   vertex_points, stagePrims, boxAttrs, meshCalls>>

\* stage = Usd.Stage.CreateNew(guide_path)
CreateNew ==
    /\ pc = "bboxed"
    /\ \E ok \in BOOLEAN :
          IF ok
              THEN /\ pc' = "created"
                   /\ err' = err
                   /\ guideFile' = NewLayer
              ELSE /\ pc' = "failed"
                   /\ err' = Wrap("create_auto_guide", Raised("create failed"))
                   /\ guideFile' = guideFile
    /\ ops' = ops \o <<"CreateNew">>
    /\ UNCHANGED <<geoExists, srcScene, bbox_extent, vertex_points, stagePrims,
                   boxAttrs, extentCall, meshCalls>>

\* _create_cube_mesh(stage, bbox_extent, vertex_points, asset_prim): the call of
\* create_auto_guide, and a caller's further calls on the same stage
CreateCubeMesh ==
    /\ pc \in {"created", "meshed"}
    /\ meshCalls < MaxCalls
    /\ \E failAt \in 0..Len(MeshSteps(bbox_extent, vertex_points, AssetPath)) :
          LET r == create_cube_mesh([prims |-> stagePrims, attrs |-> boxAttrs],
                                    bbox_extent, vertex_points, GetDefaultPrim, failAt)
          IN  /\ stagePrims' = r.stage.prims
              /\ boxAttrs' = r.stage.attrs
              /\ ops' = ops \o r.ops
              /\ IF r.err = NoError
                     THEN pc' = "meshed" /\ err' = err
                     ELSE pc' = "failed" /\ err' = Wrap("create_auto_guide", r.err)
    /\ meshCalls' = meshCalls + 1
    /\ UNCHANGED <<geoExists, srcScene, guideFile, bbox_extent, vertex_points,
                   extentCall>>

\* stage.Save()
Save ==
    /\ pc = "meshed"
    /\ \E ok \in BOOLEAN :
          IF ok
              THEN /\ pc' = "saved"
                   /\ err' = err
                   /\ guideFile' = SavedLayer(stagePrims, boxAttrs)
              ELSE /\ pc' = "failed"
                   /\ err' = Wrap("create_auto_guide", Raised("save failed"))
                   /\ guideFile' = guideFile
    /\ ops' = ops \o <<"Save">>
    /\ UNCHANGED <<geoExists, srcScene, bbox_extent, vertex_points, stagePrims,
                   boxAttrs, extentCall, meshCalls>>

Next ==
    \/ CheckSource
    \/ OpenStage
    \/ GetVertexBBox
    \/ GetExtentCall
    \/ CreateNew
    \/ CreateCubeMesh
    \/ Save

Spec == Init /\ [][Next]_vars

----------------------------------------------------------------------------
(* Vocabulary of the properties.                                           *)

\* the world bound of the default prim, as the Scene Store answers it
WorldBound == ComputeWorldBound(srcScene, AssetPath)

\* a float that str() renders without an exponent
PlainNotation(x) == x.m = 0 \/ x.e \in -4..15

PlainRange(r) ==
    \A i \in 1..3 : PlainNotation(r.min[i]) /\ PlainNotation(r.max[i])

BoxReturned == bbox_extent # <<>>

MeshAttrNames == {"faceVertexCounts", "points", "extent", "faceVertexIndices"}

AttrsComplete(attrs) ==
    /\ MeshAttrNames \subseteq DOMAIN attrs
    /\ \A n \in MeshAttrNames : attrs[n].value # <<>>

MeshBuilt == pc \in {"meshed", "saved"}

\* C1: for a world bound min=(x0,y0,z0), max=(x1,y1,z1) that needs no
\* normalization, _get_vertex_bbox returns [min, max] and the 8 corners
\* (x1,y0,z1), (x0,y0,z1), (x1,y1,z1), (x0,y1,z1), (x0,y0,z0), (x1,y0,z0),
\* (x0,y1,z0), (x1,y1,z0) in this order; for min=(-1,-2,-3), max=(4,5,6) corner 1
\* is (4,-2,6), corner 5 is (-1,-2,-3) and the extent attribute holds
\* [[-1,-2,-3],[4,5,6]].
C1_CornerOrder ==
    (BoxReturned /\ PlainRange(WorldBound)) =>
        LET x0 == WorldBound.min[1]
            y0 == WorldBound.min[2]
            z0 == WorldBound.min[3]
            x1 == WorldBound.max[1]
            y1 == WorldBound.max[2]
            z1 == WorldBound.max[3]
        IN  /\ bbox_extent = << <<x0, y0, z0>>, <<x1, y1, z1>> >>
            /\ vertex_points =
                   << <<x1, y0, z1>>, <<x0, y0, z1>>, <<x1, y1, z1>>, <<x0, y1, z1>>,
                      <<x0, y0, z0>>, <<x1, y0, z0>>, <<x0, y1, z0>>, <<x1, y1, z0>> >>
            /\ WorldBound = ScenarioBox =>
                   /\ vertex_points[1] = <<F(40, 0), F(-20, 0), F(60, 0)>>
                   /\ vertex_points[5] = <<F(-10, 0), F(-20, 0), F(-30, 0)>>
                   /\ MeshBuilt =>
                          boxAttrs["extent"].value =
                              << <<F(-10, 0), F(-20, 0), F(-30, 0)>>,
                                 <<F(40, 0), F(50, 0), F(60, 0)>> >>

C1_Witness ==
    /\ pc = "saved"
    /\ WorldBound = ScenarioBox
    /\ vertex_points[1] = <<F(40, 0), F(-20, 0), F(60, 0)>>
    /\ guideFile.attrs["extent"].value[2] = <<F(40, 0), F(50, 0), F(60, 0)>>

\* the mesh tables as written on the box prim
WrittenCounts == boxAttrs["faceVertexCounts"].value

WrittenIndices == boxAttrs["faceVertexIndices"].value

WrittenPoints == boxAttrs["points"].value

RECURSIVE SumTo(_, _)
SumTo(counts, n) == IF n = 0 THEN 0 ELSE counts[n] + SumTo(counts, n - 1)

\* the corner indices of face f, reading the index table in groups given by the
\* counts table
FaceOf(f) ==
    [k \in 1..WrittenCounts[f] |-> WrittenIndices[SumTo(WrittenCounts, f - 1) + k]]

\* the corner a face index points at
CornerAt(ix) == WrittenPoints[ix + 1]

StrictBox ==
    \A a \in 1..3 : Cmp(bbox_extent[1][a], bbox_extent[2][a]) < 0

\* C2: faceVertexIndices, read as 6 groups of 4 by faceVertexCounts, holds only
\* values in 0..7, holds each of them at least once, and the 4 corners of every
\* face share their value on one axis (are coplanar), for every bounding range.
C2_FacesIndexCorners ==
    MeshBuilt =>
        /\ WrittenCounts = <<4, 4, 4, 4, 4, 4>>
        /\ Len(WrittenIndices) = SumTo(WrittenCounts, Len(WrittenCounts))
        /\ \A i \in 1..Len(WrittenIndices) : WrittenIndices[i] \in 0..7
        /\ \A v \in 0..7 : \E i \in 1..Len(WrittenIndices) : WrittenIndices[i] = v
        /\ \A f \in 1..Len(WrittenCounts) :
              \E a \in 1..3 :
                  \A k, l \in 1..Len(FaceOf(f)) :
                      CornerAt(FaceOf(f)[k])[a] = CornerAt(FaceOf(f)[l])[a]

C2_Witness ==
    /\ MeshBuilt
    /\ StrictBox
    /\ Len(WrittenIndices) = 24
    /\ FaceOf(6) = <<1, 4, 6, 3>>

\* the axes on which two corners differ
DiffAxes(p, q) == {a \in 1..3 : p[a] # q[a]}

TheAxis(S) == CHOOSE a \in S : TRUE

\* sign of (unit vector of axis a) x (unit vector of axis b) along the third axis
Eps(a, b) == IF (b - a) % 3 = 1 THEN 1 ELSE -1

\* every two cyclically consecutive corners of face f differ on exactly one axis
TracesPerimeter(f) ==
    \A k \in 1..4 :
        Cardinality(DiffAxes(CornerAt(FaceOf(f)[k]),
                             CornerAt(FaceOf(f)[(k % 4) + 1]))) = 1

\* 1 when the normal (v2 - v1) x (v3 - v2) of face f points into the box, -1 when
\* it points out of it
Winding(f) ==
    LET v1 == CornerAt(FaceOf(f)[1])
        v2 == CornerAt(FaceOf(f)[2])
        v3 == CornerAt(FaceOf(f)[3])
        a1 == TheAxis(DiffAxes(v1, v2))
        a2 == TheAxis(DiffAxes(v2, v3))
        a3 == TheAxis((1..3) \ {a1, a2})
        normal == Cmp(v2[a1], v1[a1]) * Cmp(v3[a2], v2[a2]) * Eps(a1, a2)
        inward == IF v1[a3] = bbox_extent[1][a3] THEN 1 ELSE -1
    IN  normal * inward

\* C10: for every bounding range with min < max on every axis, each of the 6
\* faces traces the perimeter of its quad (consecutive corners differ in exactly
\* one coordinate) and all 6 faces have the same winding (their normals all
\* point into the box or all out of it).
C10_ConsistentWinding ==
    (MeshBuilt /\ StrictBox) =>
        /\ \A f \in 1..6 : TracesPerimeter(f)
        /\ \A f, g \in 1..6 : Winding(f) = Winding(g)

C10_Witness ==
    /\ MeshBuilt
    /\ StrictBox
    /\ WorldBound # ScenarioBox
    /\ \A f \in 1..6 : Winding(f) = 1

\* C3: for any world bound with min # max on every axis, coordinates that render
\* in exponential notation included, _get_vertex_bbox produces 8 pairwise
\* distinct corners, each coordinate being the min or the max of its axis as the
\* assignment table says.
C3_EightDistinctCorners ==
    (BoxReturned /\ \A a \in 1..3 : WorldBound.min[a] # WorldBound.max[a]) =>
        /\ Len(vertex_points) = 8
        /\ \A i, j \in 1..8 : i # j => vertex_points[i] # vertex_points[j]
        /\ \A i \in 1..8 : \A a \in 1..3 :
              vertex_points[i][a] \in {bbox_extent[1][a], bbox_extent[2][a]}

\* C7: the range returned by _get_vertex_bbox has min[i] <= max[i] on every axis
\* whenever the world bound has, exponent-notation coordinates included.
C7_MinBelowMax ==
    (BoxReturned /\ \A a \in 1..3 : Le(WorldBound.min[a], WorldBound.max[a])) =>
        \A a \in 1..3 : Le(bbox_extent[1][a], bbox_extent[2][a])

\* the geometry prims under the prim a path names
SubtreeNodes(path) ==
    IF path = AssetPath THEN GeoNodes
    ELSE IF path \in ValidPaths THEN {path[2]}
    ELSE {}

Lowest(S) == CHOOSE x \in S : \A y \in S : Le(x, y)

Highest(S) == CHOOSE x \in S : \A y \in S : Le(y, x)

\* the smallest axis-aligned range around the boxes of the prims in S
Enclosing(S) ==
    IF S = {} THEN EmptyRange
    ELSE Range([a \in 1..3 |-> Lowest({srcScene[n].box.min[a] : n \in S})],
               [a \in 1..3 |-> Highest({srcScene[n].box.max[a] : n \in S})])

ArgPath(arg) == IF arg.kind = "str" THEN arg.path ELSE arg.prim.path

ExtentAnswered == extentCall.done /\ extentCall.err = NoError

PurposeIncluded(n) == srcScene[n].purpose \in {"default", "render"}

UnresolvedCall ==
    /\ extentCall.done
    /\ extentCall.arg.kind = "str"
    /\ extentCall.arg.path \notin ValidPaths

\* the exception of a bound query that throws on a resolved prim
ExtentComputationError == get_extent(srcScene, PrimArg(GetDefaultPrim), TRUE).err

\* C8 as stated: given a path string that resolves to no prim, _get_extent fails
\* with a node-not-found error distinguishable from the extent-computation
\* error, raised at path resolution before the world-bound query is issued.
C8_NodeNotFoundRaised ==
    UnresolvedCall =>
        /\ extentCall.err # NoError
        /\ extentCall.err.type # ExtentComputationError.type
        /\ \A i \in 1..Len(extentCall.ops) : extentCall.ops[i] # "ComputeWorldBound"

\* C8 as the code has it: given a path string that resolves to no prim,
\* _get_extent raises nothing at path resolution, issues the world-bound query
\* on the unresolved prim, and fails with a ValueError "Error in get_extent" of
\* the same type and prefix as the extent-computation error.
C8_SameValueError ==
    UnresolvedCall =>
        /\ extentCall.ops = <<"GetPrimAtPath", "ComputeWorldBound">>
        /\ extentCall.err.type = "ValueError"
        /\ extentCall.err.type = ExtentComputationError.type
        /\ Head(extentCall.err.where) = Head(ExtentComputationError.where)

C8_Witness ==
    /\ UnresolvedCall
    /\ extentCall.arg.path = <<"missing">>
    /\ extentCall.err.where = <<"get_extent", "invalid prim">>

Untouched(file) == file.state \in {"absent", "old"}

\* C5: when the source path does not exist, create_auto_guide fails with the
\* source-not-found error before any Scene Store call is attempted, and the
\* target file is neither created nor modified.
C5_MissingSourceFailsFirst ==
    ~geoExists =>
        /\ pc \in {"start", "failed"}
        /\ pc = "failed" => err = FileNotFoundError
        /\ ops = <<>>
        /\ Untouched(guideFile)
        /\ stagePrims = <<>>

C5_Witness ==
    /\ ~geoExists
    /\ pc = "failed"
    /\ err.type = "FileNotFoundError"
    /\ guideFile.state = "old"

\* C6: the target scene is persisted only after all four mesh attributes have
\* been set on the box prim, and when a step of create_auto_guide fails nothing
\* of the target scene reaches storage (no empty or partly populated file).
C6_NoPartialPersistence ==
    /\ (\E i \in 1..Len(ops) : ops[i] = "Save") => AttrsComplete(boxAttrs)
    /\ guideFile.prims # <<>> => AttrsComplete(guideFile.attrs)
    /\ pc = "failed" => Untouched(guideFile)

BoxPath == <<"asset", "model", "guide", "box">>

\* C9: a second _create_cube_mesh call with the same arguments on the same stage
\* leaves the stage as the first call left it: the four prims <parent>,
\* <parent>/model, <parent>/model/guide, <parent>/model/guide/box and no other,
\* and the same four attribute values on the box prim.
C9_Idempotent ==
    [][(pc = "meshed" /\ pc' = "meshed") =>
          /\ stagePrims' = stagePrims
          /\ boxAttrs' = boxAttrs
          /\ Len(stagePrims') = 4
          /\ {stagePrims'[i].path : i \in 1..Len(stagePrims')} =
                 {SubSeq(BoxPath, 1, n) : n \in 1..4}
          /\ AttrsComplete(boxAttrs')]_vars

C9_Witness ==
    /\ pc = "meshed"
    /\ meshCalls = 2
    /\ Len(stagePrims) = 4
    /\ AttrsComplete(boxAttrs)

====
